---- MODULE Spec2Model ----
(***************************************************************************)
(* A model of paypal.adaptive: the gateway (gateway.py) that builds the    *)
(* adaptive-payments calls, posts them, records each response as an        *)
(* AdaptiveTransaction row and raises on failure, and the views (views.py) *)
(* of the checkout: the redirect to the provider, which freezes the        *)
(* basket, the cancel callback, which thaws it, and the success callback,  *)
(* which places the order.                                                 *)
(*                                                                         *)
(* Money is counted in cents.  Python's None is the string "None".  A      *)
(* handler is one action; what it did, in the order the code does it, is   *)
(* the sequence of events kept in last.events (POST, SAVE, RAISE, RETURN   *)
(* and, for the views, MESSAGE, FREEZE, THAW, ORDER), and the same events  *)
(* are what the action applies to the table of transactions, to the log of *)
(* POSTs and to the baskets.                                               *)
(***************************************************************************)
EXTENDS Integers, Sequences, FiniteSets, TLC

VARIABLES
    sandbox,        \* settings.PAYPAL_SANDBOX_MODE
    posts,          \* the URLs POSTed so far, in order
    txns,           \* the AdaptiveTransaction table, in order of save()
    basketStatus,   \* Basket.status of every basket of the shop
    orders,         \* the baskets an order was placed for, in order
    checkout,       \* of every basket, the pay key of the create call it is
                    \* frozen from (None when it is frozen from none)
    last,           \* the last handler run: its name, arguments and events
    calls,          \* the number of handlers run so far
    lines,          \* the basket handed to the split calculation
    receivers       \* what the split calculation returned for it

vars ==
    <<sandbox, posts, txns, basketStatus, orders, checkout, last, calls, lines,
      receivers>>

None == "None"

(***************************************************************************)
(* Bounds of the model.                                                    *)
(***************************************************************************)
\* handlers run in one behaviour
MaxCalls == 1
\* requests of the checkout in one behaviour
MaxRequests == 2
\* lines of a basket handed to the split calculation
MaxLines == 2
\* quantity of a line
MaxQuantity == 2

(***************************************************************************)
(* gateway.py 20-46: the methods and the table of URLs.                    *)
(***************************************************************************)
SET_ADAPTIVE_CHECKOUT == "CREATE"
GET_ADAPTIVE_CHECKOUT == "GET"
DO_ADAPTIVE_CHECKOUT == "DO"
DO_CAPTURE == "DoCapture"
DO_VOID == "DoVoid"
REFUND_TRANSACTION == "RefundTransaction"

Urls(sb, prod) == [sandbox |-> sb, production |-> prod]

URLS ==
    (SET_ADAPTIVE_CHECKOUT :>
        Urls("https://svcs.sandbox.paypal.com/AdaptivePayments/Pay",
             "https://svcs.paypal.com/AdaptivePayments/Pay"))
    @@ (GET_ADAPTIVE_CHECKOUT :>
        Urls("https://svcs.sandbox.paypal.com/AdaptivePayments/PaymentDetails",
             "https://svcs.paypal.com/AdaptivePayments/PaymentDetails"))
    @@ (DO_ADAPTIVE_CHECKOUT :>
        Urls("https://svcs.sandbox.paypal.com/AdaptivePayments/ExecutePayment",
             "https://svcs.paypal.com/AdaptivePayments/ExecutePayment"))

(***************************************************************************)
(* Events of a handler, and exceptions.                                    *)
(***************************************************************************)
Exc(cls, msg) == [cls |-> cls, msg |-> msg]
\* exceptions.PayPalError
PayPalError(msg) == Exc("PayPalError", msg)
\* express_exceptions.InvalidBasket
InvalidBasket(msg) == Exc("InvalidBasket", msg)
\* a failed dictionary lookup d[key]
KeyError(key) == Exc("KeyError", <<key>>)
\* an exception's message is the sequence of the strings it is formatted from

Post(url, payload, status) ==
    [type |-> "POST", url |-> url, payload |-> payload, status |-> status]
Save(txn) == [type |-> "SAVE", txn |-> txn]
Raise(exc) == [type |-> "RAISE", exc |-> exc]
Return(value) == [type |-> "RETURN", value |-> value]

\* what a helper hands back to its caller: the events it caused, and either
\* the exception it raised or the value it returned
Raised(events, exc) == [events |-> events, failed |-> TRUE, exc |-> exc]
Returned(events, val) == [events |-> events, failed |-> FALSE, val |-> val]
Failed(r) == r.failed

OfType(events, type) == SelectSeq(events, LAMBDA e : e.type = type)

(***************************************************************************)
(* The provider's answer: an HTTP status and a form-encoded body, the body *)
(* a sequence of <<key, value>> in the order sent.  parse_qs drops blank   *)
(* values, so a key the body holds has a non-empty value.                  *)
(***************************************************************************)
K_ACK == "responseEnvelope.ack"
K_CORRELATION_ID == "responseEnvelope.correlationId"
K_PAY_KEY == "payKey"
K_CURRENCY_CODE == "currencyCode"
K_STATUS == "status"
K_ERROR_ID(i) == IF i = 0 THEN "error(0).errorId" ELSE "error(1).errorId"
K_ERROR_MESSAGE(i) == IF i = 0 THEN "error(0).message" ELSE "error(1).message"

Field(key, values) == {<<>>} \cup {<< <<key, v>> >> : v \in values}

Errors ==
    { <<>>,
      << <<K_ERROR_ID(0), "520009">>, <<K_ERROR_MESSAGE(0), "Bad">> >>,
      << <<K_ERROR_ID(0), "520009">>, <<K_ERROR_MESSAGE(0), "Bad">>,
         <<K_ERROR_ID(1), "580001">>, <<K_ERROR_MESSAGE(1), "Worse">> >> }

\* a success acknowledgement, with any of the fields the gateway reads, with
\* or without a warning's error, and with or without a status
SuccessBodies ==
    { << <<K_ACK, "Success">> >> \o c \o p \o u \o e \o s :
        c \in Field(K_CORRELATION_ID, {"abc"}),
        p \in Field(K_PAY_KEY, {"AP-1"}),
        u \in Field(K_CURRENCY_CODE, {"USD"}),
        e \in {x \in Errors : Len(x) <= 2},
        s \in Field(K_STATUS, {"COMPLETED", "ERROR"}) }

\* a failure acknowledgement, with no, one or two errors
FailureBodies ==
    { << <<K_ACK, "Failure">> >> \o c \o p \o e :
        c \in Field(K_CORRELATION_ID, {"abc"}),
        p \in Field(K_PAY_KEY, {"AP-1"}),
        e \in Errors }

\* no acknowledgement at all
UnacknowledgedBodies ==
    { <<>>,
      << <<K_CORRELATION_ID, "abc">>, <<K_PAY_KEY, "AP-1">>,
         <<K_CURRENCY_CODE, "USD">>, <<K_STATUS, "COMPLETED">> >> }

Bodies == SuccessBodies \cup FailureBodies \cup UnacknowledgedBodies

HttpStatuses == {200, 201, 404, 500}

\* what the provider answers: a body is read only under status 200
Answers ==
    { [status |-> 200, content |-> b] : b \in Bodies }
    \cup { [status |-> s, content |-> <<>>] : s \in HttpStatuses \ {200} }

\* requests.codes.ok
requests_codes_ok == 200

\* urlparse.parse_qs: every key of the body, with its values in order
parse_qs(content) ==
    [ k \in {content[i][1] : i \in DOMAIN content} |->
        LET own == SelectSeq(content, LAMBDA kv : kv[1] = k)
        IN  [i \in DOMAIN own |-> own[i][2]] ]

\* _post, were only a server error refused
_post_server_errors_only(url, params, status, content) ==
    IF status >= 500
    THEN Raised(<<Post(url, params, status)>>,
                PayPalError(<<"Unable to communicate with PayPal">>))
    ELSE LET qs == parse_qs(content)
             pairs == [k \in DOMAIN qs |-> qs[k][1]]
         IN  Returned(<<Post(url, params, status)>>,
                      [fields |-> pairs, _raw_response |-> content])

\* gateway.py 74-108: the POST; pairs keeps the first value of every key and
\* the raw response
_post(url, params, status, content) ==
    IF status # requests_codes_ok
    THEN Raised(<<Post(url, params, status)>>,
                PayPalError(<<"Unable to communicate with PayPal">>))
    ELSE LET qs == parse_qs(content)
             pairs == [k \in DOMAIN qs |-> qs[k][1]]
         IN  Returned(<<Post(url, params, status)>>,
                      [fields |-> pairs, _raw_response |-> content])

\* gateway.py 111-124
_fetch_response(method, params, sb, status, content) ==
    IF method \notin DOMAIN URLS
    THEN Raised(<<>>, KeyError(method))
    ELSE LET url == IF sb THEN URLS[method].sandbox ELSE URLS[method].production
         IN  _post(url, params, status, content)

(***************************************************************************)
(* models.AdaptiveTransaction: the row, is_successful and value().  The    *)
(* fields the gateway never sets keep their default, None.                 *)
(***************************************************************************)
AdaptiveTransaction(method, ack, raw_response) ==
    [ method |-> method, ack |-> ack, raw_response |-> raw_response,
      correlation_id |-> None, pay_key |-> None, amount |-> None,
      currency |-> None, error_code |-> None, error_message |-> None ]

\* the acknowledgements that mark a transaction successful
is_successful(txn) == txn.ack \in {"Success", "SuccessWithWarning"}

\* the first value of key in the raw response, None when it holds none
value(txn, key) ==
    LET ctx == parse_qs(txn.raw_response)
    IN  IF key \in DOMAIN ctx THEN ctx[key][1] ELSE None

(***************************************************************************)
(* gateway.py 324-350: the split calculation.  A line is a record          *)
(* [partner, is_top_up, price_excl_tax, quantity], its partner a record    *)
(* [paypal_email, commission]; the result is the dictionary receivers,     *)
(* keyed by email.  A unit price is given in hundredths of a cent, a       *)
(* commission in percent; round() is modelled on exact values, and the     *)
(* prices of the model are such that no amount lies half way between two   *)
(* cents, where a binary float may round either way.                       *)
(***************************************************************************)
\* settings.PAYPAL_EMAIL
PAYPAL_EMAIL == "platform@shop"

Receiver(email, amount, is_primary) ==
    [email |-> email, amount |-> amount, is_primary |-> is_primary]

\* round(x, 2) of an amount of n / d cents, n >= 0: to the nearest cent, a
\* half away from zero
round2(n, d) == (2 * n + d) \div (2 * d)

\* accumulate, were "+=" written "="
accumulate_overwrite(recv, email, amount, is_primary) ==
    IF email \in DOMAIN recv
    THEN [recv EXCEPT ![email].amount = amount]
    ELSE recv @@ (email :> Receiver(email, amount, is_primary))

\* gateway.py 333-336, 340-343, 345-348: add to the entry of email, or
\* make it
accumulate(recv, email, amount, is_primary) ==
    IF email \in DOMAIN recv
    THEN [recv EXCEPT ![email].amount = @ + amount]
    ELSE recv @@ (email :> Receiver(email, amount, is_primary))

\* receive_line, were the commission taken out of what the partner receives
receive_line_net(recv, line) ==
    LET partner == line.partner
        price == round2(line.price_excl_tax * line.quantity, 100)
    IN  IF line.is_top_up
        THEN accumulate(recv, partner.paypal_email, price, FALSE)
        ELSE LET commission_amount == round2(price * partner.commission, 100)
                 withCommission ==
                     accumulate(recv, PAYPAL_EMAIL, commission_amount, FALSE)
             IN  accumulate(withCommission, partner.paypal_email,
                            price - commission_amount, TRUE)

\* gateway.py 328-348: one turn of the loop
receive_line(recv, line) ==
    LET partner == line.partner
        price == round2(line.price_excl_tax * line.quantity, 100)
    IN  IF line.is_top_up
        THEN accumulate(recv, partner.paypal_email, price, FALSE)
        ELSE LET commission_amount == round2(price * partner.commission, 100)
                 withCommission ==
                     accumulate(recv, PAYPAL_EMAIL, commission_amount, FALSE)
             IN  accumulate(withCommission, partner.paypal_email, price, TRUE)

RECURSIVE receive_lines(_, _)
receive_lines(recv, ls) ==
    IF ls = <<>> THEN recv
    ELSE receive_lines(receive_line(recv, Head(ls)), Tail(ls))

\* gateway.py 324-350; receivers.values() is the range of the dictionary
_get_receivers(basket_lines) ==
    LET recv == receive_lines(<<>>, basket_lines)
    IN  {recv[e] : e \in DOMAIN recv}

(***************************************************************************)
(* gateway.py 127-197: set_txn.                                            *)
(***************************************************************************)
\* gateway.py 149
over_limit(currency, amount) == currency = "USD" /\ amount > 10000 * 100

\* no_payment_required, were "<=" written "<"
no_payment_required_strict(amount) == amount < 0

\* gateway.py 154
no_payment_required(amount) == amount <= 0

\* error_code, were the last of two errors read
error_code_last(txn) == value(txn, K_ERROR_ID(1))

\* gateway.py 182-183, 226-227, 260-261
error_code(txn) == value(txn, K_ERROR_ID(0))
error_message(txn) == value(txn, K_ERROR_MESSAGE(0))

\* gateway.py 185-190, 229-234, 263-268: save, then raise if not successful
save_and_check(txn, result) ==
    <<Save(txn)>> \o
    ( IF ~is_successful(txn)
      THEN <<Raise(PayPalError(<<"Error ", txn.error_code, " - ",
                                 txn.error_message>>))>>
      ELSE <<Return(result)>> )

set_txn(basket, currency, sb, status, content) ==
    LET amount == basket.total_incl_tax
    IN  IF over_limit(currency, amount)
        THEN <<Raise(InvalidBasket(
                 <<"PayPal can only be used for orders up to 10000 USD">>))>>
        ELSE IF no_payment_required(amount)
        THEN <<Raise(InvalidBasket(
                 <<"The basket total is zero so no payment is required">>))>>
        ELSE
        LET params == [ actionType |-> SET_ADAPTIVE_CHECKOUT,
                        currencyCode |-> currency,
                        receiverList |-> _get_receivers(basket.lines) ]
            r == _fetch_response(SET_ADAPTIVE_CHECKOUT, params, sb, status,
                                 content)
            pairs == r.val.fields
        IN  IF Failed(r) THEN r.events \o <<Raise(r.exc)>>
            ELSE IF K_ACK \notin DOMAIN pairs
            THEN r.events \o <<Raise(KeyError(K_ACK))>>
            ELSE
            LET txn == AdaptiveTransaction(SET_ADAPTIVE_CHECKOUT, pairs[K_ACK],
                                           r.val._raw_response)
                url == IF sb THEN "https://www.sandbox.paypal.com/webscr"
                             ELSE "https://www.paypal.com/webscr"
            IN  IF is_successful(txn)
                THEN IF K_CORRELATION_ID \notin DOMAIN pairs
                     THEN r.events \o <<Raise(KeyError(K_CORRELATION_ID))>>
                     ELSE IF K_PAY_KEY \notin DOMAIN pairs
                     THEN r.events \o <<Raise(KeyError(K_PAY_KEY))>>
                     ELSE r.events \o save_and_check(
                              [txn EXCEPT !.correlation_id = pairs[K_CORRELATION_ID],
                                          !.pay_key = pairs[K_PAY_KEY],
                                          !.amount = amount,
                                          !.currency = currency],
                              <<url, "?cmd=_ap-payment&paykey=", pairs[K_PAY_KEY]>>)
                ELSE r.events \o save_and_check(
                         [txn EXCEPT !.error_code = error_code(txn),
                                     !.error_message = error_message(txn)],
                         None)

(***************************************************************************)
(* gateway.py 200-236 and 239-270: get_txn and do_txn, which differ in     *)
(* the method, and in actionType, which only get_txn sends.                *)
(***************************************************************************)
record_txn(method, params, sb, status, content) ==
    LET r == _fetch_response(method, params, sb, status, content)
        pairs == r.val.fields
    IN  IF Failed(r) THEN r.events \o <<Raise(r.exc)>>
        ELSE IF K_ACK \notin DOMAIN pairs
        THEN r.events \o <<Raise(KeyError(K_ACK))>>
        ELSE
        LET txn == AdaptiveTransaction(method, pairs[K_ACK], r.val._raw_response)
        IN  IF is_successful(txn)
            THEN IF K_CORRELATION_ID \notin DOMAIN pairs
                 THEN r.events \o <<Raise(KeyError(K_CORRELATION_ID))>>
                 ELSE IF K_PAY_KEY \notin DOMAIN pairs
                 THEN r.events \o <<Raise(KeyError(K_PAY_KEY))>>
                 ELSE IF K_CURRENCY_CODE \notin DOMAIN pairs
                 THEN r.events \o <<Raise(KeyError(K_CURRENCY_CODE))>>
                 ELSE LET ok == [txn EXCEPT
                                   !.correlation_id = pairs[K_CORRELATION_ID],
                                   !.pay_key = pairs[K_PAY_KEY],
                                   !.currency = pairs[K_CURRENCY_CODE]]
                      IN  r.events \o save_and_check(ok, ok)
            ELSE LET bad == [txn EXCEPT !.error_code = error_code(txn),
                                        !.error_message = error_message(txn)]
                 IN  r.events \o save_and_check(bad, bad)

get_txn(pay_key, sb, status, content) ==
    record_txn(GET_ADAPTIVE_CHECKOUT,
               [actionType |-> GET_ADAPTIVE_CHECKOUT, payKey |-> pay_key],
               sb, status, content)

do_txn(token, sb, status, content) ==
    record_txn(DO_ADAPTIVE_CHECKOUT, [payKey |-> token], sb, status, content)

(***************************************************************************)
(* gateway.py 273-310: do_capture, do_void and refund_txn hand on what     *)
(* _fetch_response returns.                                                *)
(***************************************************************************)
fetch_only(method, params, sb, status, content) ==
    LET r == _fetch_response(method, params, sb, status, content)
    IN  IF Failed(r) THEN r.events \o <<Raise(r.exc)>>
        ELSE r.events \o <<Return(r.val)>>

do_capture(txn_id, sb, status, content) ==
    fetch_only(DO_CAPTURE, [AUTHORIZATIONID |-> txn_id], sb, status, content)

do_void(txn_id, sb, status, content) ==
    fetch_only(DO_VOID, [AUTHORIZATIONID |-> txn_id], sb, status, content)

refund_txn(txn_id, sb, status, content) ==
    fetch_only(REFUND_TRANSACTION,
               [TRANSACTIONID |-> txn_id, REFUNDTYPE |-> "Full"],
               sb, status, content)

(***************************************************************************)
(* views.py 161-240: the success callback.  fetch_transaction_details is   *)
(* the facade's call of get_txn; the order number, the freeze, the         *)
(* placement of the order and the restoring of the basket are the shop's   *)
(* (OrderPlacementMixin), and the placement may fail.                      *)
(***************************************************************************)
OPEN == "Open"
FROZEN == "Frozen"
SUBMITTED == "Submitted"

\* the baskets of the shop, and the ids a callback URL may name: one of
\* them is no basket's
BasketIds == {1, 2}
RequestedBasketIds == BasketIds \cup {3}

Redirect(to) == [kind |-> "redirect", to |-> to]
Render(template) == [kind |-> "render", to |-> template]
Freeze(basket_id) == [type |-> "FREEZE", basket |-> basket_id]
Thaw(basket_id) == [type |-> "THAW", basket |-> basket_id]
Order(basket_id) == [type |-> "ORDER", basket |-> basket_id]

\* paypal.adaptive.facade.fetch_transaction_details
fetch_transaction_details(pay_key, sb, status, content) ==
    get_txn(pay_key, sb, status, content)

\* incomplete, were the status not looked at
incomplete_ignoring_status(txn) == ~is_successful(txn)

\* views.py 177
incomplete(txn) ==
    ~is_successful(txn) \/ ~(value(txn, K_STATUS) = "COMPLETED")

\* views.py 226-240: <<the basket>>, or <<>> for the None of a basket that
\* does not exist
load_basket(basket_id) ==
    IF basket_id \in BasketIds THEN <<basket_id>> ELSE <<>>

\* views.py 193-222
place_order(basket_id, placed) ==
    <<Freeze(basket_id)>> \o
    ( IF placed
      THEN <<Order(basket_id), Return(Redirect("checkout:thank-you"))>>
      ELSE <<Thaw(basket_id), Return(Render("preview"))>> )

\* views.py 162-224
SuccessResponseView_get(pay_key, basket_id, sb, status, content, placed) ==
    IF pay_key = None
    THEN <<Return(Redirect("basket:summary"))>>
    ELSE
    LET fetched == fetch_transaction_details(pay_key, sb, status, content)
        done == fetched[Len(fetched)]
        before == SubSeq(fetched, 1, Len(fetched) - 1)
    IN  IF done.type = "RAISE"
        THEN IF done.exc.cls = "PayPalError"
             THEN before \o <<Return(Redirect("basket:summary"))>>
             ELSE fetched
        ELSE IF incomplete(done.value)
        THEN before \o <<Return(Redirect("basket:summary"))>>
        ELSE LET basket == load_basket(basket_id)
             IN  IF basket = <<>>
                 THEN before \o <<Return(Redirect("basket:summary"))>>
                 ELSE before \o place_order(basket[1], placed)

(***************************************************************************)
(* views.py 47-158: the redirect to the provider and the cancel callback.  *)
(* get_paypal_url is the facade's call of set_txn.  A URL is the sequence  *)
(* of the strings it is made of, a local page the one name reverse() is    *)
(* given.  What the shop's session holds (the shipping address, the        *)
(* shipping method) is an input of the request.                            *)
(***************************************************************************)
\* paypal.adaptive.exceptions
EmptyBasketException == Exc("EmptyBasketException", <<>>)
MissingShippingAddressException == Exc("MissingShippingAddressException", <<>>)
MissingShippingMethodException == Exc("MissingShippingMethodException", <<>>)
\* django.http.Http404, which get_object_or_404 raises
Http404 == Exc("Http404", <<>>)

\* django.contrib.messages: messages.error, messages.warning
Message(level, text) == [type |-> "MESSAGE", level |-> level, text |-> text]

\* django.core.urlresolvers.reverse
reverse(name) == <<name>>

\* paypal.adaptive.facade.get_paypal_url
get_paypal_url(basket, currency, sb, status, content) ==
    set_txn(basket, currency, sb, status, content)

\* views.py 95-136; self is the view: its request, with the basket and the
\* session, where get_shipping_address and get_shipping_method look, and
\* its as_payment_method
_get_redirect_url(self, basket, currency, sb, status, content) ==
    LET session == self.request.session
    IN  IF basket.is_empty
        THEN <<Raise(EmptyBasketException)>>
        ELSE IF self.as_payment_method /\ basket.is_shipping_required
                /\ ~session.shipping_address
        THEN <<Raise(MissingShippingAddressException)>>
        ELSE IF self.as_payment_method /\ basket.is_shipping_required
                /\ ~session.shipping_method
        THEN <<Raise(MissingShippingMethodException)>>
        ELSE get_paypal_url(basket, currency, sb, status, content)

\* views.py 63-84: the message and the page an exception of
\* _get_redirect_url ends in; any other exception is not caught
handled(self, exc) ==
    CASE exc.cls = "PayPalError" ->
           << Message("error", "An error occurred communicating with PayPal"),
              Return(IF self.as_payment_method
                     THEN reverse("checkout:payment-details")
                     ELSE reverse("basket:summary")) >>
      [] exc.cls = "InvalidBasket" ->
           << Message("warning", exc.msg[1]),
              Return(reverse("basket:summary")) >>
      [] exc.cls = "EmptyBasketException" ->
           << Message("error", "Your basket is empty"),
              Return(reverse("basket:summary")) >>
      [] exc.cls = "MissingShippingAddressException" ->
           << Message("error", "A shipping address must be specified"),
              Return(reverse("checkout:shipping-address")) >>
      [] exc.cls = "MissingShippingMethodException" ->
           << Message("error", "A shipping method must be specified"),
              Return(reverse("checkout:shipping-method")) >>
      [] OTHER -> <<Raise(exc)>>

\* get_redirect_url, were the basket frozen before the provider is called
get_redirect_url_freezing_first(self, currency, sb, status, content) ==
    LET basket == self.request.basket
        tried == _get_redirect_url(self, basket, currency, sb, status, content)
        done == tried[Len(tried)]
        before == SubSeq(tried, 1, Len(tried) - 1)
    IN  IF done.type = "RAISE"
        THEN <<Freeze(basket.id)>> \o before \o handled(self, done.exc)
        ELSE <<Freeze(basket.id)>> \o before \o <<Return(done.value)>>

\* views.py 59-93
get_redirect_url(self, currency, sb, status, content) ==
    LET basket == self.request.basket
        tried == _get_redirect_url(self, basket, currency, sb, status, content)
        done == tried[Len(tried)]
        before == SubSeq(tried, 1, Len(tried) - 1)
    IN  IF done.type = "RAISE"
        THEN before \o handled(self, done.exc)
        ELSE before \o <<Freeze(basket.id), Return(done.value)>>

\* views.py 148-158: status is Basket.status of every basket
CancelResponseView_get(basket_id, status) ==
    IF basket_id \notin BasketIds \/ status[basket_id] # FROZEN
    THEN <<Raise(Http404)>>
    ELSE << Thaw(basket_id),
            Message("error", "PayPal transaction cancelled"),
            Return(Redirect("basket:summary")) >>

(***************************************************************************)
(* The state machine.                                                      *)
(***************************************************************************)
\* partners of the shop: their payout email and commission percentage
Partners ==
    { [paypal_email |-> "alice@shop", commission |-> 10],
      [paypal_email |-> "bob@shop", commission |-> 15],
      [paypal_email |-> PAYPAL_EMAIL, commission |-> 10] }

\* unit prices excluding tax, in hundredths of a cent: 19.9940 and 25.0000
UnitPrices == {199940, 250000}

Lines ==
    [ partner : Partners, is_top_up : BOOLEAN, price_excl_tax : UnitPrices,
      quantity : 1..MaxQuantity ]

RECURSIVE SeqsUpTo(_, _)
SeqsUpTo(S, n) ==
    IF n = 0 THEN {<<>>}
    ELSE LET shorter == SeqsUpTo(S, n - 1)
         IN  shorter \cup {Append(s, x) : s \in shorter, x \in S}

\* the baskets handed to set_txn: total_incl_tax in cents
Totals == {-100, 0, 3999, 1000000, 1000001}
Currencies == {"USD", "GBP"}
GatewayBaskets ==
    { [ lines |-> << [ partner |-> [paypal_email |-> "alice@shop",
                                    commission |-> 10],
                       is_top_up |-> FALSE, price_excl_tax |-> 199940,
                       quantity |-> 2 ] >>,
        total_incl_tax |-> t ] : t \in Totals }

\* what last keeps of the provider's answer: the status, and the
\* acknowledgement the body holds (None when it holds none, or is not read)
Summary(answer) ==
    [ status |-> answer.status,
      ack |-> LET qs == parse_qs(answer.content)
              IN  IF K_ACK \in DOMAIN qs THEN qs[K_ACK][1] ELSE None ]

\* the sizes of the tables
Sizes == [posts |-> Len(posts), txns |-> Len(txns), orders |-> Len(orders)]

NoCall ==
    [ op |-> "none", args |-> <<>>, answer |-> [status |-> 0, ack |-> None],
      events |-> <<>>, before |-> [posts |-> 0, txns |-> 0, orders |-> 0] ]

Init ==
    /\ sandbox \in BOOLEAN
    /\ posts = <<>>
    /\ txns = <<>>
    /\ basketStatus = [b \in BasketIds |-> OPEN]
    /\ orders = <<>>
    /\ checkout = [b \in BasketIds |-> None]
    /\ last = NoCall
    /\ calls = 0
    /\ lines = <<>>
    /\ receivers = {}

RECURSIVE status_after(_, _, _)
status_after(st, b, events) ==
    IF events = <<>> THEN st
    ELSE LET e == Head(events)
             next == IF e.type \in {"FREEZE", "THAW", "ORDER"} /\ e.basket = b
                     THEN CASE e.type = "FREEZE" -> FROZEN
                            [] e.type = "THAW" -> OPEN
                            [] e.type = "ORDER" -> SUBMITTED
                     ELSE st
         IN  status_after(next, b, Tail(events))

\* the pay key basket b is frozen from, after events: that of the create
\* call the events freeze it after, none once the events thaw it
checkout_after(key, b, events) ==
    LET created == SelectSeq(events, LAMBDA e :
                       e.type = "SAVE" /\ e.txn.method = SET_ADAPTIVE_CHECKOUT)
        does(type) == \E i \in DOMAIN events :
                         events[i].type = type /\ events[i].basket = b
    IN  IF does("THAW") THEN None
        ELSE IF created # <<>> /\ does("FREEZE") THEN created[1].txn.pay_key
        ELSE key

\* a handler ran: its events take effect
Ran(op, args, answer, events) ==
    /\ posts' = posts \o [i \in DOMAIN OfType(events, "POST") |->
                             OfType(events, "POST")[i].url]
    /\ txns' = txns \o [i \in DOMAIN OfType(events, "SAVE") |->
                           OfType(events, "SAVE")[i].txn]
    /\ orders' = orders \o [i \in DOMAIN OfType(events, "ORDER") |->
                               OfType(events, "ORDER")[i].basket]
    /\ basketStatus' = [b \in BasketIds |->
                           status_after(basketStatus[b], b, events)]
    /\ checkout' = [b \in BasketIds |-> checkout_after(checkout[b], b, events)]
    /\ last' = [ op |-> op, args |-> args, answer |-> Summary(answer),
                 events |-> events, before |-> Sizes ]
    /\ calls' = calls + 1
    /\ UNCHANGED <<sandbox, lines, receivers>>

\* at most MaxCalls handlers run
CanCall == calls < MaxCalls

SetTxn ==
    /\ CanCall
    /\ \E basket \in GatewayBaskets, currency \in Currencies,
          answer \in Answers :
          Ran("set_txn", [basket |-> basket, currency |-> currency], answer,
              set_txn(basket, currency, sandbox, answer.status, answer.content))

GetTxn ==
    /\ CanCall
    /\ \E answer \in Answers :
          Ran("get_txn", [pay_key |-> "AP-1"], answer,
              get_txn("AP-1", sandbox, answer.status, answer.content))

DoTxn ==
    /\ CanCall
    /\ \E answer \in Answers :
          Ran("do_txn", [token |-> "AP-1"], answer,
              do_txn("AP-1", sandbox, answer.status, answer.content))

DoCapture ==
    /\ CanCall
    /\ \E answer \in Answers :
          Ran("do_capture", [txn_id |-> "T-1"], answer,
              do_capture("T-1", sandbox, answer.status, answer.content))

DoVoid ==
    /\ CanCall
    /\ \E answer \in Answers :
          Ran("do_void", [txn_id |-> "T-1"], answer,
              do_void("T-1", sandbox, answer.status, answer.content))

RefundTxn ==
    /\ CanCall
    /\ \E answer \in Answers :
          Ran("refund_txn", [txn_id |-> "T-1"], answer,
              refund_txn("T-1", sandbox, answer.status, answer.content))

SuccessResponse ==
    /\ CanCall
    /\ \E pay_key \in {None, "AP-1"}, basket_id \in RequestedBasketIds,
          answer \in Answers, placed \in BOOLEAN :
          Ran("SuccessResponseView.get",
              [pay_key |-> pay_key, basket_id |-> basket_id], answer,
              SuccessResponseView_get(pay_key, basket_id, sandbox, answer.status,
                                      answer.content, placed))

Next ==
    \/ SetTxn
    \/ GetTxn
    \/ DoTxn
    \/ DoCapture
    \/ DoVoid
    \/ RefundTxn
    \/ SuccessResponse

Spec == Init /\ [][Next]_vars

(***************************************************************************)
(* The split calculation on its own: every basket of at most MaxLines      *)
(* lines, and one call of _get_receivers.                                  *)
(***************************************************************************)
InitSplit ==
    /\ sandbox = TRUE
    /\ posts = <<>>
    /\ txns = <<>>
    /\ basketStatus = [b \in BasketIds |-> OPEN]
    /\ orders = <<>>
    /\ checkout = [b \in BasketIds |-> None]
    /\ last = NoCall
    /\ calls = 0
    /\ lines \in SeqsUpTo(Lines, MaxLines)
    /\ receivers = {}

GetReceivers ==
    /\ calls = 0
    /\ receivers' = _get_receivers(lines)
    /\ calls' = 1
    /\ last' = [last EXCEPT !.op = "_get_receivers"]
    /\ UNCHANGED <<sandbox, posts, txns, basketStatus, orders, checkout, lines>>

NextSplit == GetReceivers

SpecSplit == InitSplit /\ [][NextSplit]_vars

(***************************************************************************)
(* The checkout: at most MaxRequests requests of the redirect view, the    *)
(* cancel callback and the success callback, in any order.  The provider   *)
(* issues a pay key once, and acknowledges the details only of a pay key   *)
(* it issued to the shop; request.basket is an open basket of the shop.    *)
(***************************************************************************)
PayKeys == {"AP-1", "AP-2"}

\* the pay keys of the create calls the provider acknowledged
Issued ==
    { txns[i].pay_key :
        i \in { j \in DOMAIN txns : /\ txns[j].method = SET_ADAPTIVE_CHECKOUT
                                    /\ is_successful(txns[j]) } }

Ok(content) == [status |-> 200, content |-> content]
NoAnswer == [status |-> 0, content |-> <<>>]

RefusedBody ==
    << <<K_ACK, "Failure">>, <<K_CORRELATION_ID, "abc">>,
       <<K_ERROR_ID(0), "520009">>, <<K_ERROR_MESSAGE(0), "Bad">> >>

\* what the provider answers to the create call: a pay key not issued
\* before, a success without a pay key, a failure, or no answer to read
CreateAnswers ==
    { Ok(<< <<K_ACK, "Success">>, <<K_CORRELATION_ID, "abc">>,
            <<K_PAY_KEY, k>> >>) : k \in PayKeys \ Issued }
    \cup { Ok(<< <<K_ACK, "Success">>, <<K_CORRELATION_ID, "abc">> >>),
           Ok(RefusedBody),
           [status |-> 500, content |-> <<>>] }

\* what the provider answers when asked the details of pay_key
DetailsAnswers(pay_key) ==
    ( IF pay_key \in Issued
      THEN { Ok(<< <<K_ACK, "Success">>, <<K_CORRELATION_ID, "abc">>,
                   <<K_PAY_KEY, pay_key>> >> \o u
                \o << <<K_STATUS, s>> >>) :
               u \in Field(K_CURRENCY_CODE, {"USD"}),
               s \in {"COMPLETED", "CREATED"} }
      ELSE {} )
    \cup { Ok(RefusedBody), [status |-> 500, content |-> <<>>] }

\* the answer a handler heard: none when it did not POST
Heard(events, answer) ==
    IF OfType(events, "POST") = <<>> THEN NoAnswer ELSE answer

\* the basket of a request: empty, or one line of 39.99, free or not
CheckoutBaskets ==
    { [ id |-> b, is_empty |-> TRUE, is_shipping_required |-> FALSE,
        lines |-> <<>>, total_incl_tax |-> 0 ] : b \in BasketIds }
    \cup
    { [ id |-> b, is_empty |-> FALSE, is_shipping_required |-> q,
        lines |-> << [ partner |-> [paypal_email |-> "alice@shop",
                                    commission |-> 10],
                       is_top_up |-> FALSE, price_excl_tax |-> 199940,
                       quantity |-> 2 ] >>,
        total_incl_tax |-> t ] :
        b \in BasketIds, q \in BOOLEAN, t \in {0, 3999} }

\* whether the session holds a shipping address, a shipping method
Sessions == [shipping_address : BOOLEAN, shipping_method : BOOLEAN]

CanRequest == calls < MaxRequests

RedirectRequest ==
    /\ CanRequest
    /\ \E basket \in CheckoutBaskets, session \in Sessions,
          as_payment_method \in BOOLEAN, answer \in CreateAnswers :
          /\ basketStatus[basket.id] = OPEN
          /\ LET self == [ request |-> [basket |-> basket, session |-> session],
                           as_payment_method |-> as_payment_method ]
                 events == get_redirect_url(self, "USD", sandbox, answer.status,
                                            answer.content)
             IN  Ran("RedirectView.get_redirect_url",
                     [ basket_id |-> basket.id,
                       as_payment_method |-> as_payment_method ],
                     Heard(events, answer), events)

CancelRequest ==
    /\ CanRequest
    /\ \E basket_id \in RequestedBasketIds :
          Ran("CancelResponseView.get", [basket_id |-> basket_id], NoAnswer,
              CancelResponseView_get(basket_id, basketStatus))

SuccessRequest ==
    /\ CanRequest
    /\ \E pay_key \in {None} \cup PayKeys, basket_id \in RequestedBasketIds,
          placed \in BOOLEAN :
          \E answer \in DetailsAnswers(pay_key) :
             LET events == SuccessResponseView_get(pay_key, basket_id, sandbox,
                               answer.status, answer.content, placed)
             IN  Ran("SuccessResponseView.get",
                     [pay_key |-> pay_key, basket_id |-> basket_id],
                     Heard(events, answer), events)

NextCheckout ==
    \/ RedirectRequest
    \/ CancelRequest
    \/ SuccessRequest

SpecCheckout == Init /\ [][NextCheckout]_vars

(***************************************************************************)
(* What the claims speak of.                                               *)
(***************************************************************************)
Posted == OfType(last.events, "POST")
Saved == OfType(last.events, "SAVE")
Final == last.events[Len(last.events)]

\* set_txn, get_txn and do_txn
RecordingOps == {"set_txn", "get_txn", "do_txn"}
\* create, get-details, execute, capture, void, refund
EnumeratedOps == RecordingOps \cup {"do_capture", "do_void", "refund_txn"}

\* the first value a body gives key, None when it gives none
FirstOf(content, key) ==
    LET at == {i \in DOMAIN content : content[i][1] = key}
    IN  IF at = {} THEN None
        ELSE content[CHOOSE i \in at : \A j \in at : i <= j][2]

CommunicationError == PayPalError(<<"Unable to communicate with PayPal">>)
RaisedCommunicationError ==
    Final.type = "RAISE" /\ Final.exc = CommunicationError
RaisedProviderError ==
    /\ Final.type = "RAISE"
    /\ Final.exc.cls = "PayPalError"
    /\ Final.exc.msg[1] = "Error "

\* the basket total set_txn refuses
RefusedTotal(currency, amount) ==
    amount <= 0 \/ (currency = "USD" /\ amount > 1000000)

\* C1: set_txn on a basket whose total is <= 0, or over 10000 in USD, raises
\* InvalidBasket and does nothing else: no POST is issued, no transaction
\* is saved.
C1_InvalidBasketBeforeNetwork ==
    ( /\ last.op = "set_txn"
      /\ RefusedTotal(last.args.currency, last.args.basket.total_incl_tax) )
    => /\ Len(last.events) = 1
       /\ Final.type = "RAISE"
       /\ Final.exc.cls = "InvalidBasket"
       /\ Len(posts) = last.before.posts
       /\ Len(txns) = last.before.txns

\* C1's case: set_txn refused a USD basket over the ceiling
C1_Witness ==
    /\ last.op = "set_txn"
    /\ last.args.currency = "USD"
    /\ last.args.basket.total_incl_tax > 1000000
    /\ Final.type = "RAISE"

\* C2: every saved transaction has either its correlation id and pay key,
\* or its error code and error message, and not both.
C2_ExactlyOneOutcomeRecorded ==
    \A i \in DOMAIN txns :
        LET t == txns[i]
        IN  (t.correlation_id # None /\ t.pay_key # None)
            # (t.error_code # None /\ t.error_message # None)

\* C3: a call of set_txn, get_txn or do_txn whose response was received
\* (status 200) and parsed saves exactly one transaction, and does not end
\* in a failed field lookup.
C3_ParsedResponseIsRecordedOnce ==
    ( /\ last.op \in RecordingOps
      /\ Len(Posted) = 1
      /\ Posted[1].status = 200 )
    => /\ Len(txns) = last.before.txns + 1
       /\ ~(Final.type = "RAISE" /\ Final.exc.cls = "KeyError")

\* what C4 says of the statuses in accepted: any other status raises the
\* communication error and saves nothing, a status in accepted never raises
\* it, and a provider error is raised only after the transaction is saved
StatusDecides(accepted) ==
    ( last.op \in RecordingOps /\ Len(Posted) = 1 )
    => /\ Posted[1].status \notin accepted
          => /\ RaisedCommunicationError
             /\ Saved = <<>>
             /\ Len(txns) = last.before.txns
       /\ Posted[1].status \in accepted => ~RaisedCommunicationError
       /\ RaisedProviderError
          => /\ Len(Saved) = 1
             /\ Len(txns) = last.before.txns + 1
             /\ Final.exc # CommunicationError

\* C4, as stated: a non-2xx status raises the communication error and saves
\* nothing, and every 2xx status is decoded.
C4_Every2xxIsDecoded == StatusDecides(200..299)

\* C4, amended: a status other than 200 raises the communication error
\* (PayPalError "Unable to communicate with PayPal") and saves nothing; only
\* status 200 is decoded; the provider error, of the same class, differs in
\* its message and is raised only after the transaction is saved.
C4_Only200IsDecoded == StatusDecides({200})

\* C4's case: a 404 was answered to get_txn, which raised
C4_Witness ==
    /\ last.op = "get_txn"
    /\ Len(Posted) = 1
    /\ Posted[1].status = 404
    /\ RaisedCommunicationError

Finalized ==
    OfType(last.events, "FREEZE") # <<>> \/ OfType(last.events, "ORDER") # <<>>

\* C7: the success callback freezes the basket and places the order only
\* for a pay key whose fetched transaction is successful and has status
\* COMPLETED; without a pay key, on a provider error, or for any other
\* status it places no order and redirects to the basket summary.
C7_OrderOnlyWhenCompleted ==
    last.op = "SuccessResponseView.get"
    => /\ Finalized
          => /\ last.args.pay_key # None
             /\ Len(Saved) = 1
             /\ is_successful(Saved[1].txn)
             /\ FirstOf(Saved[1].txn.raw_response, K_STATUS) = "COMPLETED"
       /\ ( \/ last.args.pay_key = None
            \/ (Len(Posted) = 1 /\ Posted[1].status # 200)
            \/ (Len(Saved) = 1 /\ ~is_successful(Saved[1].txn))
            \/ ( /\ Len(Saved) = 1
                 /\ FirstOf(Saved[1].txn.raw_response, K_STATUS) # "COMPLETED" ) )
          => /\ ~Finalized
             /\ Len(orders) = last.before.orders
             /\ Final.type = "RETURN"
             /\ Final.value = Redirect("basket:summary")

\* C7's case: the callback placed an order
C7_Witness ==
    /\ last.op = "SuccessResponseView.get"
    /\ OfType(last.events, "ORDER") # <<>>
    /\ Len(orders) = last.before.orders + 1

\* C8: each of the six operations, once its arguments are accepted, starts
\* by POSTing to a URL of the table, that of the environment.
C8_EveryOperationHasAUrl ==
    ( /\ last.op \in EnumeratedOps
      /\ ~(Final.type = "RAISE" /\ Final.exc.cls = "InvalidBasket") )
    => /\ Len(Posted) = 1
       /\ last.events[1].type = "POST"
       /\ \E m \in DOMAIN URLS :
             last.events[1].url =
                 IF sandbox THEN URLS[m].sandbox ELSE URLS[m].production

\* C9: on a failure acknowledgement set_txn, get_txn and do_txn POST, then
\* save the transaction with the code and message of error 0, then raise
\* the provider error made of that code and message; nothing is returned.
C9_FailureIsSavedThenRaised ==
    ( /\ last.op \in RecordingOps
      /\ Len(Posted) = 1
      /\ last.answer.status = 200
      /\ last.answer.ack # None
      /\ ~is_successful([ack |-> last.answer.ack]) )
    => /\ Len(last.events) = 3
       /\ last.events[1].type = "POST"
       /\ last.events[2].type = "SAVE"
       /\ last.events[3].type = "RAISE"
       /\ LET t == last.events[2].txn
              code == FirstOf(t.raw_response, "error(0).errorId")
              message == FirstOf(t.raw_response, "error(0).message")
          IN  /\ t.error_code = code
              /\ t.error_message = message
              /\ last.events[3].exc = PayPalError(<<"Error ", code, " - ", message>>)
              /\ Len(txns) = last.before.txns + 1
              /\ txns[Len(txns)] = t

\* C9's case: set_txn was answered two errors, saved the first and raised
C9_Witness ==
    /\ last.op = "set_txn"
    /\ last.answer.ack = "Failure"
    /\ Len(Saved) = 1
    /\ Saved[1].txn.error_code = "520009"
    /\ FirstOf(Saved[1].txn.raw_response, "error(1).errorId") = "580001"
    /\ Final.type = "RAISE"

(***************************************************************************)
(* The split calculation's claims.                                         *)
(***************************************************************************)
Split == last.op = "_get_receivers"

LinePrice(l) == round2(l.price_excl_tax * l.quantity, 100)
LineCommission(l) ==
    IF l.is_top_up THEN 0 ELSE round2(LinePrice(l) * l.partner.commission, 100)

\* what line l sends to identifier e
RoutedBy(l, e) ==
    (IF l.partner.paypal_email = e THEN LinePrice(l) ELSE 0)
    + (IF e = PAYPAL_EMAIL THEN LineCommission(l) ELSE 0)

RECURSIVE Routed(_, _)
Routed(ls, e) ==
    IF ls = <<>> THEN 0 ELSE RoutedBy(Head(ls), e) + Routed(Tail(ls), e)

\* the basket total: the sum of the lines' prices
RECURSIVE TotalPrice(_)
TotalPrice(ls) ==
    IF ls = <<>> THEN 0 ELSE LinePrice(Head(ls)) + TotalPrice(Tail(ls))

RECURSIVE TotalCommission(_)
TotalCommission(ls) ==
    IF ls = <<>> THEN 0
    ELSE LineCommission(Head(ls)) + TotalCommission(Tail(ls))

\* the identifiers the lines pay: their partners, and the platform when a
\* line owes a commission
Identifiers(ls) ==
    {ls[i].partner.paypal_email : i \in DOMAIN ls}
    \cup {PAYPAL_EMAIL : i \in {j \in DOMAIN ls : ~ls[j].is_top_up}}

Pairs(rs) == {<<r.email, r.amount>> : r \in rs}

Permuted(ls) ==
    { [i \in DOMAIN ls |-> ls[f[i]]] :
        f \in {g \in [DOMAIN ls -> DOMAIN ls] :
                  \A i, j \in DOMAIN ls : g[i] = g[j] => i = j} }

RECURSIVE SumAmounts(_)
SumAmounts(rs) ==
    IF rs = {} THEN 0
    ELSE LET r == CHOOSE x \in rs : TRUE IN r.amount + SumAmounts(rs \ {r})

C6_AmountsSumToTotal ==
    Split => SumAmounts(receivers) = TotalPrice(lines)

\* C6, amended: the payees' amounts sum to the basket total plus the
\* commissions of the lines that are not top-ups.
C6_AmountsSumToTotalPlusCommissions ==
    Split
    => SumAmounts(receivers)
       = TotalPrice(lines) + TotalCommission(lines)

\* C6's case: a top-up line and a line owing a commission were split
C6_Witness ==
    /\ Split
    /\ \E i, j \in DOMAIN lines :
          /\ lines[i].is_top_up
          /\ ~lines[j].is_top_up
          /\ LineCommission(lines[j]) > 0
    /\ SumAmounts(receivers) > TotalPrice(lines)

\* the dictionary after the first k lines
After(k) == receive_lines(<<>>, SubSeq(lines, 1, k))

\* C10: a partner's identifier that is sent the amount of a line that is
\* not a top-up is primary among the payees, whatever the order of the
\* lines, and an identifier once primary stays so.
C10_PartnerOfSaleIsPrimary ==
    Split
    => /\ \A i \in DOMAIN lines :
             ~lines[i].is_top_up
             => \A r \in receivers :
                   r.email = lines[i].partner.paypal_email => r.is_primary
       /\ \A k \in 1..(Len(lines) - 1) :
             \A e \in DOMAIN After(k) :
                 After(k)[e].is_primary => After(k + 1)[e].is_primary

(***************************************************************************)
(* The checkout's claims.                                                  *)
(***************************************************************************)
\* the step is a request of the view op
Requested(op) == calls' # calls /\ last'.op = op

\* the pages of the shop a view redirects to
LocalPages ==
    { reverse(name) : name \in { "basket:summary", "checkout:payment-details",
                                 "checkout:shipping-address",
                                 "checkout:shipping-method" } }

\* the create call of the events succeeded and returned the provider's URL
\* of its pay key, and the basket was frozen after it, before the return
FrozenAfterCreate(ev, b) ==
    /\ Len(ev) = 4
    /\ ev[1].type = "POST"
    /\ ev[1].status = 200
    /\ ev[2].type = "SAVE"
    /\ ev[2].txn.method = SET_ADAPTIVE_CHECKOUT
    /\ is_successful(ev[2].txn)
    /\ ev[2].txn.pay_key \in PayKeys
    /\ ev[3].type = "FREEZE"
    /\ ev[3].basket = b
    /\ ev[4].type = "RETURN"
    /\ ev[4].value \notin LocalPages
    /\ ev[4].value[Len(ev[4].value)] = ev[2].txn.pay_key

\* the events are those of a failure outcome: no call of the provider (an
\* empty or invalid basket, a missing shipping address or method), a
\* communication error, or a provider error
FailureOutcome(ev) ==
    \/ OfType(ev, "POST") = <<>>
    \/ \E i \in DOMAIN ev : ev[i].type = "POST" /\ ev[i].status # 200
    \/ \E i \in DOMAIN ev : ev[i].type = "SAVE" /\ ~is_successful(ev[i].txn)

C12_OrderOnlyForTheBasketOfThePayKey ==
    last.op = "SuccessResponseView.get"
    => \A i \in DOMAIN last.events :
          last.events[i].type = "ORDER"
          => /\ last.args.pay_key \in PayKeys
             /\ checkout[last.events[i].basket] = last.args.pay_key

====
